---- MODULE Spec2Model ----
(***************************************************************************)
(* The upload / analysis / export workflow of src/src/pages/Index.tsx (a   *)
(* React function component) as a state machine.                           *)
(*                                                                         *)
(* State is the component's useState cells.  Every event handler is one    *)
(* atomic action: JavaScript runs a handler to completion (or to its first *)
(* await) on the single UI thread, and React re-renders before the next    *)
(* user event, so a handler invoked by an event reads the state of the     *)
(* latest render.  analyzeImages is async: it runs synchronously up to the *)
(* await of line 86, and every expiry of its 2000 ms timer resumes it for  *)
(* one more atomic step.  Between two such steps any other handler may     *)
(* run.  The constants `images` and `includeDescription` that a running    *)
(* analyzeImages reads are those of the render in which it was invoked     *)
(* (closure capture): they are kept in the run's record.  Of a captured    *)
(* image only `name` is ever read (lines 89-91), so the record keeps that  *)
(* field of each image.                                                    *)
(*                                                                         *)
(* Strings of the source that are not ASCII are transliterated.            *)
(* The cells `model` and `useFilename` (lines 31, 33) are written by their *)
(* controls and read by no handler; they are left out of the state.        *)
(***************************************************************************)
EXTENDS Integers, Sequences, FiniteSets, TLC

(* ------------------------------ bounds -------------------------------- *)

\* The number of files the user hands to the page in one session.
MaxFiles == 2

\* The same, in the sessions whose liveness is checked.
MaxFairFiles == 2

\* The number of invocations of analyzeImages suspended at a time, when the
\* function is called directly: the button allows one (line 277), the
\* function itself any number.
MaxRuns == 2

\* Values Math.random().toString(36).substr(2, 9) may return (line 42): the
\* generator may return the same value twice.
Ids == {"k3j9x0q1z", "p07fmw2ab"}

\* Names of the files the user may pick or drop.
FileNames == {"a.jpg", "b.txt"}

\* Texts typed into the API key field and the Sheets URL field. A text is the
\* sequence of its UTF-16 code units: "", " " and "sk" for the key; "", a
\* tab followed by a no-break space, and "http" for the URL.
ApiKeys == {<<>>, <<32>>, <<115, 107>>}

SheetsUrls == {<<>>, <<9, 160>>, <<104, 116, 116, 112>>}

(* --------------------------- string helpers --------------------------- *)

\* The code units String.prototype.trim() strips, the WhiteSpace and
\* LineTerminator of ECMAScript: U+0009..U+000D, U+0020, U+00A0, U+1680,
\* U+2000..U+200A, U+2028, U+2029, U+202F, U+205F, U+3000, U+FEFF.
WhiteSpace ==
    (9..13) \cup {32, 160, 5760} \cup (8192..8202)
        \cup {8232, 8233, 8239, 8287, 12288, 65279}

RECURSIVE TrimStart(_)
TrimStart(s) ==
    IF s # <<>> /\ Head(s) \in WhiteSpace THEN TrimStart(Tail(s)) ELSE s

RECURSIVE TrimEnd(_)
TrimEnd(s) ==
    IF s # <<>> /\ s[Len(s)] \in WhiteSpace
        THEN TrimEnd(SubSeq(s, 1, Len(s) - 1))
        ELSE s

\* String.prototype.trim()
Trim(s) == TrimEnd(TrimStart(s))

\* Array.prototype.join(sep) on an array of strings
RECURSIVE Join(_, _)
Join(arr, sep) ==
    IF arr = <<>> THEN ""
    ELSE IF Len(arr) = 1 THEN arr[1]
    ELSE arr[1] \o sep \o Join(Tail(arr), sep)

RECURSIVE GCD(_, _)
GCD(a, b) == IF b = 0 THEN a ELSE GCD(b, a % b)

\* Mutant of Pct: the progress counts the item about to be processed as
\* done, ((i + 1) / n) * 100.
PctOfNext(i, n) ==
    LET g == GCD((i + 1) * 100, n) IN <<((i + 1) * 100) \div g, n \div g>>

\* A progress value, an exact fraction <<numerator, denominator>> in lowest
\* terms: (i / n) * 100 of line 83.
Pct(i, n) == LET g == GCD(i * 100, n) IN <<(i * 100) \div g, n \div g>>

(* ------------------------------ messages ------------------------------ *)

NoAlert == "no alert"

\* line 68
MissingCredential == "Pozhaluysta, vvedite API klyuch"

\* line 73
EmptyInput == "Pozhaluysta, zagruzite izobrazheniya"

\* line 132
MissingDestination == "Pozhaluysta, vvedite URL Google Tablitsy"

\* line 135
NotImplemented ==
    "Funktsiya sokhraneniya v Google Tablitsy budet realizovana v sleduyushchey versii"

\* An optional string: Undefined when not set, Some(s) when set to s.
Undefined == <<>>

Some(s) == <<s>>

NoDownload == [name |-> "", type |-> "", headers |-> <<>>, rows |-> <<>>, content |-> ""]

(* ------------------------------- state -------------------------------- *)

VARIABLES
    apiKey,             \* line 30
    images,             \* line 32: sequence of [id, name]
    includeDescription, \* line 34
    results,            \* line 35: sequence of AnalysisResult
    isProcessing,       \* line 36
    progress,           \* line 37
    googleSheetsUrl,    \* line 38
    runs,               \* the invocations of analyzeImages suspended at line 86,
                        \* in the order they were invoked
    timers,             \* the pending timers of line 86 in the order they
                        \* expire: timers[k] is the place in `runs` of the
                        \* invocation the k-th timer resumes
    alert,              \* the alert() the last handler raised, or NoAlert
    download,           \* the file the last handler offered, or NoDownload
    dropped,            \* the number of files handed to the page so far
    noRunSinceClear     \* history, kept in ClearSpec: no invocation has
                        \* started since the collection was last cleared
                        \* (or since the page was loaded)

\* The state the handlers read and write.
page == <<apiKey, images, includeDescription, results, isProcessing, progress,
          googleSheetsUrl, runs, timers, alert, download>>

vars == <<page, dropped, noRunSinceClear>>

Init ==
    /\ apiKey = <<>>
    /\ images = <<>>
    /\ includeDescription = FALSE
    /\ results = <<>>
    /\ isProcessing = FALSE
    /\ progress = <<0, 1>>
    /\ googleSheetsUrl = <<>>
    /\ runs = <<>>
    /\ timers = <<>>
    /\ alert = NoAlert
    /\ download = NoDownload
    /\ dropped = 0
    /\ noRunSinceClear = TRUE

\* A handler that raises no alert and offers no file.
Quiet == alert' = NoAlert /\ download' = NoDownload

(* ------------------------- configuration inputs ----------------------- *)

\* onChange of the API key input, line 164
setApiKey(v) ==
    /\ apiKey' = v
    /\ Quiet
    /\ UNCHANGED <<images, includeDescription, results, isProcessing, progress,
                   googleSheetsUrl, runs, timers>>

\* onCheckedChange of the includeDescription checkbox, line 195
setIncludeDescription(v) ==
    /\ includeDescription' = v
    /\ Quiet
    /\ UNCHANGED <<apiKey, images, results, isProcessing, progress,
                   googleSheetsUrl, runs, timers>>

\* onChange of the Sheets URL textarea, line 323
setGoogleSheetsUrl(v) ==
    /\ googleSheetsUrl' = v
    /\ Quiet
    /\ UNCHANGED <<apiKey, images, includeDescription, results, isProcessing,
                   progress, runs, timers>>

(* --------------------------- collection store ------------------------- *)

\* The ImageFile records of lines 41-47 for a batch of files: one per file,
\* in the batch's order, ids[k] the identifier drawn for the k-th file.
NewImages(files, ids) ==
    [k \in 1..Len(files) |-> [id |-> ids[k], name |-> files[k]]]

\* Mutant of AppendImages: the batch goes before the records already there.
PrependImages(prev, newImages) == newImages \o prev

\* setImages(prev => [...prev, ...newImages]), line 48
AppendImages(prev, newImages) == prev \o newImages

\* onDrop, lines 40-49
onDrop(files, ids) ==
    /\ images' = AppendImages(images, NewImages(files, ids))
    /\ Quiet
    /\ UNCHANGED <<apiKey, includeDescription, results, isProcessing, progress,
                   googleSheetsUrl, runs, timers>>

\* prev.filter(img => img.id !== id), line 58
FilterOut(prev, id) == SelectSeq(prev, LAMBDA img : img.id # id)

\* removeImage, lines 57-59
removeImage(id) ==
    /\ images' = FilterOut(images, id)
    /\ Quiet
    /\ UNCHANGED <<apiKey, includeDescription, results, isProcessing, progress,
                   googleSheetsUrl, runs, timers>>

\* Mutant of clearImages: setResults([]) is left out.
clearImagesOnly ==
    /\ images' = <<>>
    /\ Quiet
    /\ UNCHANGED <<apiKey, includeDescription, results, isProcessing, progress,
                   googleSheetsUrl, runs, timers>>

\* clearImages, lines 61-64
clearImages ==
    /\ images' = <<>>
    /\ results' = <<>>
    /\ Quiet
    /\ UNCHANGED <<apiKey, includeDescription, isProcessing, progress,
                   googleSheetsUrl, runs, timers>>

(* --------------------------- analysis workflow ------------------------ *)

\* Mutant of StartDisabled: isProcessing does not disable the button.
StartDisabledWhenNothingToDo == Len(images) = 0 \/ apiKey = <<>>

\* The start button's `disabled`, line 277 (!apiKey: the empty string).
StartDisabled == isProcessing \/ Len(images) = 0 \/ apiKey = <<>>

\* Mutant of KeyMissing: the key is not trimmed.
KeyMissingNoTrim == apiKey = <<>>

\* !apiKey.trim(), line 67
KeyMissing == Trim(apiKey) = <<>>

\* images.length === 0, line 72
NoImages == Len(images) = 0

\* The `images` a suspended invocation reads at lines 81-83: the constant of
\* the render it was invoked in.
RunImages(run) == run.images

\* Mutant of RunIncludeDescription: the invocation reads the checkbox as it
\* is when the result is built.
RunIncludeDescriptionLive(run) == includeDescription

\* The `includeDescription` a suspended invocation reads at line 91: the
\* constant of the render it was invoked in.
RunIncludeDescription(run) == run.includeDescription

\* The AnalysisResult of lines 88-94.
Result(image, withDescription) ==
    [filename    |-> image.name,
     title       |-> "SEO zagolovok dlya " \o image.name,
     description |-> IF withDescription
                        THEN Some("Detal'noe opisanie izobrazheniya " \o image.name)
                        ELSE Undefined,
     keywords    |-> "klyuchevoe slovo1, klyuchevoe slovo2, klyuchevoe slovo3",
     status      |-> "completed"]

\* The invocation as it suspends for the first time: i = 0, nothing pushed.
NewRun ==
    [images             |-> [k \in 1..Len(images) |-> [name |-> images[k].name]],
     includeDescription |-> includeDescription,
     i                  |-> 0,
     newResults         |-> <<>>]

\* alert(msg); return, lines 68-69 and 73-74
Rejected(msg) ==
    /\ alert' = msg
    /\ download' = NoDownload
    /\ UNCHANGED <<apiKey, images, includeDescription, results, isProcessing,
                   progress, googleSheetsUrl, runs, timers>>

\* lines 77-86: the flag, the progress of i = 0, the first await
Started ==
    /\ isProcessing' = TRUE
    /\ progress' = Pct(0, Len(images))
    /\ runs' = Append(runs, NewRun)
    /\ timers' = Append(timers, Len(runs) + 1)
    /\ Quiet
    /\ UNCHANGED <<apiKey, images, includeDescription, results, googleSheetsUrl>>

\* Mutant of analyzeImages: the collection is checked before the key.
analyzeImagesCollectionFirst ==
    IF NoImages THEN Rejected(EmptyInput)
    ELSE IF KeyMissing THEN Rejected(MissingCredential)
    ELSE Started

\* analyzeImages from its call to its first await, lines 66-86.
analyzeImages ==
    IF KeyMissing THEN Rejected(MissingCredential)
    ELSE IF NoImages THEN Rejected(EmptyInput)
    ELSE Started

\* `rs` without its r-th element.
Without(rs, r) == SubSeq(rs, 1, r - 1) \o SubSeq(rs, r + 1, Len(rs))

\* The pending timers but the one of the r-th invocation.
OtherTimers(r) == SelectSeq(timers, LAMBDA t : t # r)

\* The timers once the r-th invocation has set its next one, line 86: timers
\* of the same delay expire in the order they were set.
TimersAfterAwait(r) == Append(OtherTimers(r), r)

\* The timers once the r-th invocation has ended and left `runs`.
TimersAfterEnd(r) ==
    [k \in 1..Len(OtherTimers(r)) |->
        IF OtherTimers(r)[k] > r
            THEN OtherTimers(r)[k] - 1
            ELSE OtherTimers(r)[k]]

\* Mutant of Push: unshift, the result goes to the front.
PushFront(newResults, result) == <<result>> \o newResults

\* newResults.push(result), line 96
Push(newResults, result) == Append(newResults, result)

\* Mutant of Pushed: the item is read from the collection of the latest
\* render where that has one at the index, not from the captured one.
PushedLive(run) ==
    [run EXCEPT
        !.newResults = Push(@, Result(IF run.i < Len(images)
                                         THEN images[run.i + 1]
                                         ELSE RunImages(run)[run.i + 1],
                                      RunIncludeDescription(run))),
        !.i = @ + 1]

\* The run after lines 88-96 and the i++ of line 81.
Pushed(run) ==
    [run EXCEPT
        !.newResults = Push(@, Result(RunImages(run)[run.i + 1],
                                      RunIncludeDescription(run))),
        !.i = @ + 1]

\* Mutant of Continue: the list accumulated so far is stored after every
\* item, as if setResults(newResults) stood inside the loop.
ContinuePublishing(run, r) ==
    /\ progress' = Pct(run.i, Len(RunImages(run)))
    /\ runs' = [runs EXCEPT ![r] = run]
    /\ timers' = TimersAfterAwait(r)
    /\ results' = run.newResults
    /\ UNCHANGED isProcessing

\* lines 83-86: the progress of the next item, and the next await
Continue(run, r) ==
    /\ progress' = Pct(run.i, Len(RunImages(run)))
    /\ runs' = [runs EXCEPT ![r] = run]
    /\ timers' = TimersAfterAwait(r)
    /\ UNCHANGED <<results, isProcessing>>

\* Mutant of Finish: setIsProcessing(false) is left out.
FinishStillProcessing(run, r) ==
    /\ results' = run.newResults
    /\ progress' = <<100, 1>>
    /\ runs' = SubSeq(runs, 1, r - 1) \o SubSeq(runs, r + 1, Len(runs))
    /\ timers' = TimersAfterEnd(r)
    /\ UNCHANGED isProcessing

\* lines 99-101
Finish(run, r) ==
    /\ results' = run.newResults
    /\ progress' = <<100, 1>>
    /\ isProcessing' = FALSE
    /\ runs' = Without(runs, r)
    /\ timers' = TimersAfterEnd(r)

\* analyzeImages from the expiry of the timer of line 86 to its next await
\* or to its end, lines 86-101, for the r-th suspended invocation.
Resume(r) ==
    LET run == Pushed(runs[r])
    IN  /\ IF run.i < Len(RunImages(run))
              THEN Continue(run, r)
              ELSE Finish(run, r)
        /\ Quiet
        /\ UNCHANGED <<apiKey, images, includeDescription, googleSheetsUrl>>

(* -------------------------------- export ------------------------------ *)

\* `${val}` between double quotes, line 117; an undefined value never gets
\* here (line 115 replaces it).
Quoted(val) == "\"" \o val \o "\""

\* values.map(val => `"${val}"`), line 117
QuotedAll(values) == [k \in 1..Len(values) |-> Quoted(values[k])]

\* row.description || '', line 115
DescriptionOrEmpty(row) ==
    IF row.description = Undefined THEN "" ELSE row.description[1]

\* lines 107-109
Headers(withDescription) ==
    IF withDescription
        THEN <<"filename", "title", "descriptors", "keywords">>
        ELSE <<"filename", "title", "keywords">>

\* lines 114-116
Values(row, withDescription) ==
    IF withDescription
        THEN <<row.filename, row.title, DescriptionOrEmpty(row), row.keywords>>
        ELSE <<row.filename, row.title, row.keywords>>

\* lines 111-119
CsvContent(rs, withDescription) ==
    Join(<<Join(Headers(withDescription), ",")>>
            \o [k \in 1..Len(rs) |->
                  Join(QuotedAll(Values(rs[k], withDescription)), ",")],
         "\n")

\* The file of lines 121-126, with the arrays its text was joined from.
CsvFile(rs, withDescription) ==
    [name    |-> "image_analysis_results.csv",
     type    |-> "text/csv",
     headers |-> Headers(withDescription),
     rows    |-> [k \in 1..Len(rs) |-> Values(rs[k], withDescription)],
     content |-> CsvContent(rs, withDescription)]

\* The `includeDescription` exportToCSV reads at lines 107 and 114: the
\* constant of the render it was invoked in, the current one.
ExportIncludeDescription == includeDescription

\* exportToCSV without the guard of line 105: a file with the header line
\* alone is downloaded when there are no results.
exportToCSVNoGuard ==
    /\ download' = CsvFile(results, ExportIncludeDescription)
    /\ alert' = NoAlert
    /\ UNCHANGED <<apiKey, images, includeDescription, results, isProcessing,
                   progress, googleSheetsUrl, runs, timers>>

\* exportToCSV, lines 104-128
exportToCSV ==
    /\ IF Len(results) = 0
          THEN download' = NoDownload
          ELSE download' = CsvFile(results, ExportIncludeDescription)
    /\ alert' = NoAlert
    /\ UNCHANGED <<apiKey, images, includeDescription, results, isProcessing,
                   progress, googleSheetsUrl, runs, timers>>

\* saveToGoogleSheets without the return of line 133: the second alert
\* follows the first and is the one left on the screen.
saveToGoogleSheetsNoReturn ==
    /\ alert' = NotImplemented
    /\ download' = NoDownload
    /\ UNCHANGED <<apiKey, images, includeDescription, results, isProcessing,
                   progress, googleSheetsUrl, runs, timers>>

\* saveToGoogleSheets, lines 130-136
saveToGoogleSheets ==
    /\ IF Trim(googleSheetsUrl) = <<>>
          THEN alert' = MissingDestination
          ELSE alert' = NotImplemented
    /\ download' = NoDownload
    /\ UNCHANGED <<apiKey, images, includeDescription, results, isProcessing,
                   progress, googleSheetsUrl, runs, timers>>

(* ------------------------- the rendered page -------------------------- *)

\* The API key input, lines 159-165.
TypeApiKey ==
    /\ \E v \in ApiKeys : v # apiKey /\ setApiKey(v)
    /\ UNCHANGED <<dropped, noRunSinceClear>>

\* The includeDescription checkbox, lines 192-196.
ToggleIncludeDescription ==
    /\ setIncludeDescription(~includeDescription)
    /\ UNCHANGED <<dropped, noRunSinceClear>>

\* The file input, lines 51-55 and 216-223: the user picks a batch of files
\* (e.target.files is a FileList, possibly empty), and every file gets an
\* identifier. A session hands over MaxFiles files at most.
DropFiles(limit) ==
    \E n \in 0..(limit - dropped) :
        \E files \in [1..n -> FileNames], ids \in [1..n -> Ids] :
            /\ onDrop(files, ids)
            /\ dropped' = dropped + n
            /\ UNCHANGED noRunSinceClear

HandleFileInput == DropFiles(MaxFiles)

\* A remove button, lines 248-254: one per record of the collection.
ClickRemove ==
    /\ \E k \in 1..Len(images) : removeImage(images[k].id)
    /\ UNCHANGED <<dropped, noRunSinceClear>>

\* The clear button, lines 231-238: rendered when the collection is not empty.
ClickClear ==
    /\ Len(images) > 0
    /\ clearImages
    /\ UNCHANGED <<dropped, noRunSinceClear>>

\* The start button, lines 275-282.
ClickStart ==
    /\ ~StartDisabled
    /\ analyzeImages
    /\ UNCHANGED <<dropped, noRunSinceClear>>

\* The CSV button, lines 284-289: rendered when there are results.
ClickExportCSV ==
    /\ Len(results) > 0
    /\ exportToCSV
    /\ UNCHANGED <<dropped, noRunSinceClear>>

\* The Sheets button, lines 290-293: rendered when there are results.
ClickSaveToGoogleSheets ==
    /\ Len(results) > 0
    /\ saveToGoogleSheets
    /\ UNCHANGED <<dropped, noRunSinceClear>>

\* The Sheets URL textarea, lines 308-328: rendered when there are results.
TypeGoogleSheetsUrl ==
    /\ Len(results) > 0
    /\ \E v \in SheetsUrls : v # googleSheetsUrl /\ setGoogleSheetsUrl(v)
    /\ UNCHANGED <<dropped, noRunSinceClear>>

\* The timer of line 86 that is due first expires.
TimerFires ==
    /\ timers # <<>>
    /\ Resume(Head(timers))
    /\ UNCHANGED <<dropped, noRunSinceClear>>

\* The page as the user drives it: every control acts when it is rendered and
\* enabled.
Next ==
    \/ TypeApiKey
    \/ ToggleIncludeDescription
    \/ HandleFileInput
    \/ ClickRemove
    \/ ClickClear
    \/ ClickStart
    \/ ClickExportCSV
    \/ ClickSaveToGoogleSheets
    \/ TypeGoogleSheetsUrl
    \/ TimerFires

Spec == Init /\ [][Next]_vars

(* ----------------------- the handlers, called directly ---------------- *)

\* removeImage with any identifier, present in the collection or not.
CallRemoveImage ==
    /\ \E id \in Ids : removeImage(id)
    /\ UNCHANGED <<dropped, noRunSinceClear>>

\* clearImages in any state.
CallClearImages ==
    /\ clearImages
    /\ UNCHANGED <<dropped, noRunSinceClear>>

\* analyzeImages with any API key and any collection, whether or not an
\* earlier invocation is still suspended: the function does not read
\* isProcessing. At most MaxRuns invocations are suspended at a time: a call
\* that would start one more is left out, a call that is rejected is not.
CallAnalyzeImages ==
    /\ ~(Len(runs) >= MaxRuns /\ ~KeyMissing /\ ~NoImages)
    /\ analyzeImages
    /\ UNCHANGED <<dropped, noRunSinceClear>>

\* exportToCSV with any result list.
CallExportToCSV ==
    /\ exportToCSV
    /\ UNCHANGED <<dropped, noRunSinceClear>>

\* saveToGoogleSheets with any URL and any result list.
CallSaveToGoogleSheets ==
    /\ saveToGoogleSheets
    /\ UNCHANGED <<dropped, noRunSinceClear>>

\* setGoogleSheetsUrl, line 323, with any result list.
CallSetGoogleSheetsUrl ==
    /\ \E v \in SheetsUrls : v # googleSheetsUrl /\ setGoogleSheetsUrl(v)
    /\ UNCHANGED <<dropped, noRunSinceClear>>

\* The handlers as functions: called in any state, not only in those where
\* the page renders and enables their control.
HandlerNext ==
    \/ TypeApiKey
    \/ ToggleIncludeDescription
    \/ HandleFileInput
    \/ CallRemoveImage
    \/ CallClearImages
    \/ CallAnalyzeImages
    \/ CallExportToCSV
    \/ CallSaveToGoogleSheets
    \/ CallSetGoogleSheetsUrl
    \/ TimerFires

HandlerSpec == Init /\ [][HandlerNext]_vars

\* The file input in a session of MaxFairFiles files at most.
HandleFileInputShort == DropFiles(MaxFairFiles)

FairNext ==
    \/ TypeApiKey
    \/ ToggleIncludeDescription
    \/ HandleFileInputShort
    \/ ClickRemove
    \/ ClickClear
    \/ ClickStart
    \/ ClickExportCSV
    \/ ClickSaveToGoogleSheets
    \/ TypeGoogleSheetsUrl
    \/ TimerFires

\* The page, with every timer that was set expiring: a setTimeout callback
\* runs once the event loop is free, and no handler blocks it.
FairSpec == Init /\ [][FairNext]_vars /\ WF_vars(TimerFires)

\* The clear button, with the history of clears and starts kept.
ClickClearNoted ==
    /\ Len(images) > 0
    /\ clearImages
    /\ noRunSinceClear' = TRUE
    /\ UNCHANGED dropped

\* The start button, with the history of clears and starts kept: the
\* invocation starts when it passes the checks of lines 67 and 72.
ClickStartNoted ==
    /\ ~StartDisabled
    /\ analyzeImages
    /\ noRunSinceClear' = (noRunSinceClear /\ Len(runs') = Len(runs))
    /\ UNCHANGED dropped

\* The page as in Next, with the history of clears and starts kept.
ClearNext ==
    \/ TypeApiKey
    \/ ToggleIncludeDescription
    \/ HandleFileInput
    \/ ClickRemove
    \/ ClickClearNoted
    \/ ClickStartNoted
    \/ ClickExportCSV
    \/ ClickSaveToGoogleSheets
    \/ TypeGoogleSheetsUrl
    \/ TimerFires

ClearSpec == Init /\ [][ClearNext]_vars

(* ------------------------------- claims ------------------------------- *)

\* The r-th suspended invocation resumes and ends.
Completes(r) == Len(runs') < Len(runs) /\ Resume(r)

\* An invocation passes its checks and suspends for the first time.
Starts == Len(runs') > Len(runs) /\ analyzeImages

\* The names of a collection, in order.
Names(imgs) == [k \in 1..Len(imgs) |-> imgs[k].name]

\* C1: a run started on a collection of N >= 1 images keeps that collection
\* as it was at the start, whatever happens to the stored one, and when it
\* completes it stores exactly N results, the k-th with the name of the k-th
\* image of that collection as its filename.
C1_CompletedRunResults ==
    [][/\ Starts =>
            /\ Len(images) >= 1
            /\ Names(runs'[Len(runs')].images) = Names(images)
       /\ \A r \in 1..Len(runs) :
            /\ (Len(runs') = Len(runs)) => runs'[r].images = runs[r].images
            /\ Completes(r) =>
                /\ Len(results') = Len(runs[r].images)
                /\ \A k \in 1..Len(results') :
                      results'[k].filename = runs[r].images[k].name]_vars

\* A run over two images of different names has completed.
C1_Witness ==
    /\ runs = <<>>
    /\ ~isProcessing
    /\ progress = <<100, 1>>
    /\ Len(results) = 2
    /\ results[1].filename # results[2].filename

\* C2: a run takes includeDescription once, when it starts; when it completes,
\* every result it stores has a non-empty description if the flag was set at
\* the start and none if it was not, whatever the checkbox did meanwhile.
C2_UniformDescription ==
    [][/\ Starts => runs'[Len(runs')].includeDescription = includeDescription
       /\ \A r \in 1..Len(runs) :
            /\ (Len(runs') = Len(runs)) =>
                   runs'[r].includeDescription = runs[r].includeDescription
            /\ Completes(r) =>
                   \A k \in 1..Len(results') :
                       IF runs[r].includeDescription
                          THEN /\ results'[k].description # Undefined
                               /\ results'[k].description[1] # ""
                          ELSE results'[k].description = Undefined]_vars

\* A run that started with the flag set has pushed a result, with the checkbox
\* cleared since, and has more to push.
C2_Witness ==
    /\ Len(runs) = 1
    /\ runs[1].includeDescription
    /\ ~includeDescription
    /\ runs[1].i = 1
    /\ Len(runs[1].images) = 2
    /\ runs[1].newResults[1].description # Undefined

\* The stored results come from a run that had includeDescription set.
ProducedWithDescription ==
    results # <<>> /\ results[1].description # Undefined

\* C3: the CSV file has the four columns filename, title, descriptors,
\* keywords exactly when the run that produced the stored results had
\* includeDescription set, and the three columns filename, title, keywords
\* exactly when it had not.
C3_CsvColumnsFollowRun ==
    download # NoDownload =>
        IF ProducedWithDescription
           THEN /\ download.headers = <<"filename", "title", "descriptors", "keywords">>
                /\ \A k \in 1..Len(download.rows) : Len(download.rows[k]) = 4
           ELSE /\ download.headers = <<"filename", "title", "keywords">>
                /\ \A k \in 1..Len(download.rows) : Len(download.rows[k]) = 3

\* C4: analyzeImages with an API key that is empty or only white space raises
\* the MissingCredential alert and changes neither the results, the
\* collection, the progress nor isProcessing, and begins no run.
C4_BlankKeyRejected ==
    [][(Trim(apiKey) = <<>> /\ analyzeImages) =>
            /\ alert' = MissingCredential
            /\ UNCHANGED <<results, images, progress, isProcessing, runs>>]_vars

\* analyzeImages was called with a key of white space and a collection.
C4_Witness ==
    /\ alert = MissingCredential
    /\ apiKey # <<>>
    /\ Trim(apiKey) = <<>>
    /\ Len(images) > 0
    /\ ~isProcessing

\* C5, as claimed: analyzeImages with an empty collection raises the
\* EmptyInput alert for every API key, and does not set isProcessing.
C5_EmptyCollectionAlwaysEmptyInput ==
    [][(Len(images) = 0 /\ analyzeImages) =>
            /\ alert' = EmptyInput
            /\ isProcessing' = isProcessing]_vars

\* C5, amended: analyzeImages with an empty collection raises the EmptyInput
\* alert when the API key is not blank and the MissingCredential alert when
\* it is blank; it does not set isProcessing and begins no run.
C5_EmptyCollectionRejected ==
    [][(Len(images) = 0 /\ analyzeImages) =>
            /\ alert' = IF Trim(apiKey) = <<>> THEN MissingCredential ELSE EmptyInput
            /\ isProcessing' = isProcessing
            /\ runs' = runs]_vars

\* analyzeImages was called with a key and no collection.
C5_Witness ==
    /\ alert = EmptyInput
    /\ Len(images) = 0
    /\ Trim(apiKey) # <<>>
    /\ ~isProcessing

\* C6: the state right after clearImages has an empty collection and an empty
\* result list, whatever the state before, a run in progress included.
C6_ClearEmptiesBoth ==
    [][clearImages => (images' = <<>> /\ results' = <<>>)]_vars

\* The collection and the results are empty while a run over two images is
\* in progress.
C6_Witness ==
    /\ Len(runs) = 1
    /\ Len(runs[1].images) = 2
    /\ runs[1].i = 1
    /\ images = <<>>
    /\ results = <<>>

\* C7: at most one invocation of analyzeImages is in progress, and while one
\* is, the start button is disabled.
C7_OneRunAtATime ==
    /\ Len(runs) <= 1
    /\ Len(runs) = 1 => StartDisabled

\* A run is in progress with a collection and a key: the start button is
\* disabled by isProcessing alone.
C7_Witness ==
    /\ Len(runs) = 1
    /\ Len(images) > 0
    /\ Trim(apiKey) # <<>>

\* C8: while a run is in progress, a step that is not the run's own changes
\* neither the collection nor the stored results.
C8_NoUserMutationDuringRun ==
    [][(Len(runs) > 0 /\ runs' = runs) =>
            (images' = images /\ results' = results)]_vars

\* C9: a run that has started completes: isProcessing is cleared, the progress
\* is 100 and the results are the run's.
C9_RunCompletes ==
    (Len(runs) > 0) ~>
        (/\ Len(runs) = 0
         /\ ~isProcessing
         /\ progress = <<100, 1>>
         /\ results # <<>>)

\* A run over two images has pushed a result and the collection has been
\* emptied and the checkbox toggled meanwhile.
C9_Witness ==
    /\ Len(runs) = 1
    /\ Len(runs[1].images) = 2
    /\ runs[1].i = 1
    /\ images = <<>>
    /\ includeDescription # runs[1].includeDescription

\* C10: onDrop with a batch of n >= 1 files makes the collection n longer,
\* keeps the records it had in their places and puts the records of the
\* batch after them in the batch's order.
C10_AppendKeepsOrder ==
    [][dropped' > dropped =>
         \A files \in [1..(dropped' - dropped) -> FileNames],
            ids \in [1..(dropped' - dropped) -> Ids] :
             onDrop(files, ids) =>
                /\ Len(images') = Len(images) + Len(files)
                /\ SubSeq(images', 1, Len(images)) = images
                /\ \A k \in 1..Len(files) :
                      /\ images'[Len(images) + k].name = files[k]
                      /\ images'[Len(images) + k].id = ids[k]]_vars

\* A file was appended to a collection of one image of another name while a
\* run over it was in progress: the image the run started on is still first.
C10_Witness ==
    /\ Len(runs) = 1
    /\ Len(runs[1].images) = 1
    /\ Len(images) = 2
    /\ images[1].name = runs[1].images[1].name
    /\ images[1].name = "b.txt"
    /\ images[2].name = "a.jpg"

\* C11: removeImage with an identifier that is in the collection makes the
\* collection one record shorter and keeps the other records in their order;
\* with one that is not, it changes nothing; either way the results, the
\* progress and isProcessing stay as they are.
C11_RemoveTakesOne ==
    [][\A id \in Ids :
         removeImage(id) =>
            /\ IF \E k \in 1..Len(images) : images[k].id = id
                  THEN /\ Len(images') = Len(images) - 1
                       /\ images' = FilterOut(images, id)
                  ELSE images' = images
            /\ UNCHANGED <<results, progress, isProcessing>>]_vars

\* C12: no two records of the collection have the same identifier.
C12_UniqueIds ==
    \A j, k \in 1..Len(images) : j # k => images[j].id # images[k].id

\* C13: saveToGoogleSheets raises MissingDestination when the URL is empty or
\* only whitespace and reports "not implemented" otherwise; either way it
\* produces no file and leaves the collection, the results, the progress,
\* isProcessing, the API key, the flag and the URL as they are.
C13_SheetsStub ==
    [][saveToGoogleSheets =>
         /\ IF \A k \in 1..Len(googleSheetsUrl) :
                  googleSheetsUrl[k] \in WhiteSpace
               THEN alert' = MissingDestination
               ELSE alert' = NotImplemented
         /\ download' = NoDownload
         /\ UNCHANGED <<images, results, progress, isProcessing, runs,
                        apiKey, includeDescription, googleSheetsUrl>>]_vars

\* A URL of whitespace only was refused, with results on the screen.
C13_Witness ==
    /\ alert = MissingDestination
    /\ googleSheetsUrl # <<>>
    /\ Len(results) > 0

\* C14: exportToCSV with an empty result list produces no file, raises no
\* alert and changes no state; a file is produced only from a result list
\* that is not empty.
C14_EmptyExportIsNoOp ==
    [][/\ Len(results) = 0 /\ dropped' = dropped /\ exportToCSV =>
            /\ download' = NoDownload
            /\ alert' = NoAlert
            /\ UNCHANGED <<apiKey, images, includeDescription, results,
                           isProcessing, progress, googleSheetsUrl, runs>>
       /\ download' # NoDownload => Len(results) > 0]_vars

\* The state exportToCSV leaves when it is called during a first run, before
\* any result is stored: no file, no alert, the run where it was.
C14_Witness ==
    /\ Len(results) = 0
    /\ download = NoDownload
    /\ alert = NoAlert
    /\ isProcessing
    /\ Len(runs) = 1
    /\ runs[1].i = 1

\* p <= q, for two progress values.
Leq(p, q) == p[1] * q[2] <= q[1] * p[2]

\* C15: a run sets the progress to 0 when it starts, to i / n * 100 before it
\* processes item i of its n items, and to 100 when it completes; the
\* progress is always within 0..100, and from the start of a run to its
\* completion it never decreases and is 100 only at completion. A suspended
\* run stands before item i (i = 0 when it has just started); the step that
\* takes a run off the list is its completion.
C15_ProgressOfRun ==
    /\ [](/\ Leq(<<0, 1>>, progress) /\ Leq(progress, <<100, 1>>)
          /\ \A r \in 1..Len(runs) :
                /\ runs[r].i < Len(runs[r].images)
                /\ progress[1] * Len(runs[r].images)
                     = 100 * runs[r].i * progress[2]
                /\ progress # <<100, 1>>)
    /\ [][runs # <<>> =>
             /\ Leq(progress, progress')
             /\ Len(runs') < Len(runs) => progress' = <<100, 1>>]_vars

\* A run over two items is about to process the second: progress is 50.
C15_Witness ==
    /\ Len(runs) = 1
    /\ Len(runs[1].images) = 2
    /\ runs[1].i = 1
    /\ progress = <<50, 1>>

\* C16: the stored results are never a part of a run's list. A step of a run
\* that is not its last leaves the stored results alone; its last step
\* stores the whole accumulated list, one result for each image the
\* collection had when the run started; and nothing but the completion of a
\* run and clearImages, which empties the list, writes the stored results. So
\* the stored list is never longer than the collection was at the start of
\* the run that produced it.
C16_ResultsStoredWhole ==
    [][/\ Starts => Len(runs'[Len(runs')].images) = Len(images)
       /\ \A r \in 1..Len(runs) :
            /\ Len(runs') = Len(runs) =>
                  /\ Len(runs'[r].images) = Len(runs[r].images)
                  /\ runs'[r] # runs[r] =>
                        /\ results' = results
                        /\ runs'[r].i = runs[r].i + 1
                        /\ Len(runs'[r].newResults) = runs'[r].i
            /\ Completes(r) =>
                  /\ Len(results') = Len(runs[r].images)
                  /\ SubSeq(results', 1, runs[r].i) = runs[r].newResults
       /\ results' # results => Len(runs') < Len(runs) \/ results' = <<>>]_vars

\* A second run, over two images, has accumulated one result, and the stored
\* list is still the one result of the first run, which ran with the other
\* setting of the flag.
C16_Witness ==
    /\ Len(runs) = 1
    /\ Len(runs[1].images) = 2
    /\ Len(runs[1].newResults) = 1
    /\ Len(results) = 1
    /\ results[1].description # runs[1].newResults[1].description

\* The results of a run over a collection with a flag when nothing else
\* happens between its start and its completion: one result for each image,
\* in order.
RunAlone(imgs, withDescription) ==
    [k \in 1..Len(imgs) |-> Result(imgs[k], withDescription)]

\* C17: the results a run stores when it completes are those of a run over
\* the collection and the flag of the moment it started with nothing
\* interleaved, whatever was appended, removed, cleared or toggled between
\* its steps.
C17_SnapshotIsolation ==
    [][/\ Starts =>
            /\ Len(runs'[Len(runs')].images) = Len(images)
            /\ \A k \in 1..Len(images) :
                  runs'[Len(runs')].images[k].name = images[k].name
            /\ runs'[Len(runs')].includeDescription = includeDescription
       /\ \A r \in 1..Len(runs) :
            /\ Len(runs') = Len(runs) =>
                  /\ runs'[r].images = runs[r].images
                  /\ runs'[r].includeDescription = runs[r].includeDescription
            /\ Completes(r) =>
                  results' = RunAlone(runs[r].images,
                                      runs[r].includeDescription)]_vars

\* A run that started on two images has processed the first; the first
\* image was removed and the checkbox switched since it started.
C17_Witness ==
    /\ Len(runs) = 1
    /\ Len(runs[1].images) = 2
    /\ runs[1].i = 1
    /\ Len(images) = 1
    /\ images[1].name = runs[1].images[2].name
    /\ images[1].name # runs[1].images[1].name
    /\ includeDescription # runs[1].includeDescription

\* C18: once clearImages has run, the stored results stay empty until a run
\* that started after it completes; so while no run has started since the
\* last clear, the stored results are empty, and in particular they are
\* empty when the collection is empty too.
C18_EmptyUntilNewRun ==
    noRunSinceClear => results = <<>>

\* C19: in every state where the start button is enabled, a click on it
\* passes the check of the key and the check of the collection, raises no
\* alert and sets isProcessing.
C19_EnabledStartStarts ==
    [][~StartDisabled /\ analyzeImages =>
         /\ ~KeyMissing
         /\ ~NoImages
         /\ alert' = NoAlert
         /\ isProcessing']_vars

====
